---- MODULE Spec2Model ----
(***************************************************************************)
(* Butter & Crumble preorder bot (src/main.py).                            *)
(*                                                                         *)
(* run_bot is a linear script: load_config, browser set-up, navigation,    *)
(* find_and_click_drop_card, find_and_click_product and the polling loop   *)
(* of find_and_click_checkout_button, then the cleanup in `finally`.       *)
(* The page is the environment: every page operation either returns an     *)
(* observation drawn from a small set or raises.                           *)
(* Strings are sequences of one-character strings so that str.lower() and  *)
(* the `in` substring test are computed, not assumed.                      *)
(***************************************************************************)
EXTENDS Integers, Sequences, FiniteSets, TLC

\* ---------------------------------------------------------------- bounds
MaxTimeoutSeconds == 2
MaxCards == 2
MaxButtons == 2

\* values RETRY_INTERVAL_MS takes in the model: negative, zero, a divisor
\* that leaves a remainder, an exact divisor, one larger than any timeout
RetryIntervals == {-300, 0, 400, 700, 1000, 2500}

\* ---------------------------------------------------------------- strings
UpperChars == <<"A","B","C","D","E","F","G","H","I","J","K","L","M","N","O","P","Q","R","S","T","U","V","W","X","Y","Z">>
LowerChars == <<"a","b","c","d","e","f","g","h","i","j","k","l","m","n","o","p","q","r","s","t","u","v","w","x","y","z">>

LowerChar(c) ==
    IF \E i \in 1..Len(UpperChars) : UpperChars[i] = c
    THEN LowerChars[CHOOSE i \in 1..Len(UpperChars) : UpperChars[i] = c]
    ELSE c

\* str.lower()
Lower(s) == [i \in 1..Len(s) |-> LowerChar(s[i])]

\* `sub in s`
Contains(sub, s) ==
    \E i \in 0..(Len(s) - Len(sub)) : SubSeq(s, i + 1, i + Len(sub)) = sub

\* title_search="Thurs - Sun" (run_bot) and the drop-card titles of the model
TitleSearch == <<"T","h","u","r","s"," ","-"," ","S","u","n">>
DropTitleUpper == <<"T","H","U","R","S"," ","-"," ","S","U","N">>
DropTitleInside == <<"A"," ","t","h","u","r","s"," ","-"," ","s","u","n","!">>
DropTitleOther == <<"M","o","n"," ","-"," ","W","e","d">>
DropTitleNear == <<"T","h","u","r","s","-","S","u","n">>
DropTitles == {TitleSearch, DropTitleUpper, DropTitleInside, DropTitleOther, DropTitleNear}

\* product_name="Small Pastry Box" (run_bot) and the product titles of the model
ProductName == <<"S","m","a","l","l"," ","P","a","s","t","r","y"," ","B","o","x">>
ProductTitleUpper == <<"S","M","A","L","L"," ","P","A","S","T","R","Y"," ","B","O","X">>
ProductTitleInside == <<"s","m","a","l","l"," ","p","a","s","t","r","y"," ","b","o","x"," ","x","6">>
ProductTitleOther == <<"L","a","r","g","e"," ","P","a","s","t","r","y"," ","B","o","x">>
ProductTitleNear == <<"S","m","a","l","l"," ","B","o","x">>
ProductTitles == {ProductName, ProductTitleUpper, ProductTitleInside, ProductTitleOther, ProductTitleNear}

\* texts of the buttons inside a drop card
ClickToOrder == <<"C","l","i","c","k"," ","t","o"," ","o","r","d","e","r">>
OrderWord == <<"o","r","d","e","r">>
OrderNowUpper == <<"O","R","D","E","R"," ","N","O","W">>
SoldOutText == <<"S","o","l","d"," ","O","u","t">>
ButtonTexts == {ClickToOrder, OrderNowUpper, SoldOutText}

\* sequences over S of length 0..n
SeqUpTo(S, n) == UNION {[1..k -> S] : k \in 0..n}

\* ---------------------------------------------------------------- state
VARIABLES
    pc,            \* position of run_bot
    config,        \* the record load_config returns
    launched,      \* playwright.chromium.launch returned a browser
    closeCalls,    \* number of browser.close() calls
    uncaught,      \* an exception left run_bot
    trace,         \* the steps run_bot has invoked, in order
    dropN, dropIdx, dropClicks, dropPassed, dropResult,
    prodN, prodIdx, prodClicks, prodPassed, prodResult,
    max_attempts, attempts, queries, ckClicks, sleeps, sleepDurs,
    ckRaised, seenAt, ckResult

runVars == <<pc, config, launched, closeCalls, uncaught, trace>>
dropVars == <<dropN, dropIdx, dropClicks, dropPassed, dropResult>>
prodVars == <<prodN, prodIdx, prodClicks, prodPassed, prodResult>>
ckVars == <<max_attempts, attempts, queries, ckClicks, sleeps, sleepDurs,
            ckRaised, seenAt, ckResult>>
vars == <<runVars, dropVars, prodVars, ckVars>>

NoConfig == [headless |-> TRUE, retry_interval_ms |-> 500, timeout_seconds |-> 30]

Init ==
    /\ pc = "load_config"
    /\ config = NoConfig
    /\ launched = FALSE
    /\ closeCalls = 0
    /\ uncaught = FALSE
    /\ trace = <<>>
    /\ dropN = 0 /\ dropIdx = 0 /\ dropClicks = <<>> /\ dropPassed = {}
    /\ dropResult = "none"
    /\ prodN = 0 /\ prodIdx = 0 /\ prodClicks = <<>> /\ prodPassed = {}
    /\ prodResult = "none"
    /\ max_attempts = 0 /\ attempts = 0 /\ queries = 0 /\ ckClicks = <<>>
    /\ sleeps = 0 /\ sleepDurs = {} /\ ckRaised = FALSE /\ seenAt = 0
    /\ ckResult = "none"

\* ---------------------------------------------------------------- run_bot: set-up

\* config = load_config(); int() of a non-numeric variable raises before
\* any browser exists
LoadConfig ==
    /\ pc = "load_config"
    /\ trace' = Append(trace, "load_config")
    /\ \/ /\ \E h \in BOOLEAN, r \in RetryIntervals, t \in 0..MaxTimeoutSeconds :
                config' = [headless |-> h, retry_interval_ms |-> r, timeout_seconds |-> t]
          /\ pc' = "launch"
          /\ UNCHANGED uncaught
       \/ /\ pc' = "done"
          /\ uncaught' = TRUE
          /\ UNCHANGED config
    /\ UNCHANGED <<launched, closeCalls, dropVars, prodVars, ckVars>>

\* browser = playwright.chromium.launch(...)
Launch ==
    /\ pc = "launch"
    /\ \/ /\ launched' = TRUE
          /\ pc' = "new_context"
          /\ UNCHANGED uncaught
       \/ /\ pc' = "done"
          /\ uncaught' = TRUE
          /\ UNCHANGED launched
    /\ UNCHANGED <<config, closeCalls, trace, dropVars, prodVars, ckVars>>

\* context = browser.new_context(...), after the launch and before the
\* `try`: an exception here leaves the `with` block, no handler and no
\* `finally` of run_bot encloses this line
NewContext ==
    /\ pc = "new_context"
    /\ \/ /\ pc' = "add_init_script"
          /\ UNCHANGED uncaught
       \/ /\ pc' = "done"
          /\ uncaught' = TRUE
    /\ UNCHANGED <<config, launched, closeCalls, trace, dropVars, prodVars, ckVars>>

\* context.add_init_script(...), before the `try` as well
AddInitScript ==
    /\ pc = "add_init_script"
    /\ \/ /\ pc' = "new_page"
          /\ UNCHANGED uncaught
       \/ /\ pc' = "done"
          /\ uncaught' = TRUE
    /\ UNCHANGED <<config, launched, closeCalls, trace, dropVars, prodVars, ckVars>>

\* page = context.new_page(), before the `try` as well
NewPage ==
    /\ pc = "new_page"
    /\ \/ /\ pc' = "goto"
          /\ UNCHANGED uncaught
       \/ /\ pc' = "done"
          /\ uncaught' = TRUE
    /\ UNCHANGED <<config, launched, closeCalls, trace, dropVars, prodVars, ckVars>>

\* page.goto(config['url'], wait_until='networkidle'), first statement of
\* the `try`; an exception is caught by `except Exception`
Navigate ==
    /\ pc = "goto"
    /\ trace' = Append(trace, "navigate")
    /\ \/ pc' = "drop_query"
       \/ pc' = "except"
    /\ UNCHANGED <<config, launched, closeCalls, uncaught, dropVars, prodVars, ckVars>>

\* ---------------------------------------------------------------- find_and_click_drop_card

\* the containment test with its operands exchanged
TitleMatchesReversed(search, title) == Contains(Lower(title), Lower(search))

\* title_search.lower() in title.lower()
TitleMatches(search, title) == Contains(Lower(search), Lower(title))

\* "Click to order" in btn_text or "order" in btn_text.lower()
IsOrderText(btn_text) ==
    Contains(ClickToOrder, btn_text) \/ Contains(OrderWord, Lower(btn_text))

\* the outer handlers of find_and_click_drop_card:
\* except PlaywrightTimeoutError / except Exception -> return False
DropCatch(outcome) == IF outcome = "raised" THEN "False" ELSE outcome

\* what one selector of selectors_to_try yields: wait_for_selector times
\* out, another exception is raised, or query_selector_all returns n cards
SelectorObs ==
    {[kind |-> "timeout", n |-> 0], [kind |-> "error", n |-> 0]}
        \cup {[kind |-> "found", n |-> k] : k \in 0..MaxCards}

\* for selector in selectors_to_try: the first non-empty result wins, a
\* PlaywrightTimeoutError moves on to the next selector, any other
\* exception leaves the loop; -1 stands for that exception
RECURSIVE SelectDropCards(_, _)
SelectDropCards(sels, i) ==
    IF i > Len(sels) THEN 0
    ELSE IF sels[i].kind = "error" THEN -1
    ELSE IF sels[i].kind = "found" /\ sels[i].n > 0 THEN sels[i].n
    ELSE SelectDropCards(sels, i + 1)

\* what the page shows for one drop card
DropCardObs ==
    [h2 : BOOLEAN, title : DropTitles, soldOut : BOOLEAN,
     buttons : SeqUpTo(ButtonTexts, MaxButtons), textBtn : BOOLEAN,
     raiseAt : {"none", "title", "sold_out", "buttons", "click"}]

\* the body of the per-card `try`: "error" is an exception caught by the
\* per-card handler, "skip" a `continue` or a title that does not match,
\* "click" a completed click followed by return True.  is_sold_out is
\* computed and logged only.
DropCardOutcome(obs) ==
    IF obs.raiseAt = "title" THEN "error"
    ELSE IF ~obs.h2 THEN "skip"
    ELSE IF ~TitleMatches(TitleSearch, obs.title) THEN "skip"
    ELSE IF obs.raiseAt # "none" THEN "error"
    ELSE "click"

\* the element the three click strategies pick inside the card
DropClickTarget(obs) ==
    IF \E i \in 1..Len(obs.buttons) : IsOrderText(obs.buttons[i]) THEN "order_button"
    ELSE IF obs.textBtn THEN "text_button"
    ELSE "card"

\* lines 72-109: load state, screenshot, the selector loop
DropQuery ==
    /\ pc = "drop_query"
    /\ trace' = Append(trace, "drop_card")
    /\ \E pre \in {"ok", "raise"}, sels \in [1..3 -> SelectorObs] :
          LET n == SelectDropCards(sels, 1)
              outcome == IF pre = "raise" \/ n = -1 THEN "raised"
                         ELSE IF n = 0 THEN "False"
                         ELSE "loop"
              ret == DropCatch(outcome)
          IN  IF ret = "loop"
              THEN /\ dropN' = n
                   /\ dropIdx' = 1
                   /\ pc' = "drop_loop"
                   /\ UNCHANGED dropResult
              ELSE /\ dropResult' = ret
                   /\ pc' = "after_drop"
                   /\ UNCHANGED <<dropN, dropIdx>>
    /\ UNCHANGED <<config, launched, closeCalls, uncaught, dropClicks, dropPassed,
                   prodVars, ckVars>>

\* lines 111-175: one iteration of `for idx, card in enumerate(drop_cards)`
DropCard ==
    /\ pc = "drop_loop"
    /\ dropIdx <= dropN
    /\ \E obs \in DropCardObs :
          LET o == DropCardOutcome(obs)
          IN  IF o = "click"
              THEN /\ dropClicks' = Append(dropClicks,
                          [hasTitle |-> obs.h2, title |-> obs.title,
                           soldOut |-> obs.soldOut, target |-> DropClickTarget(obs)])
                   /\ dropResult' = DropCatch("True")
                   /\ pc' = "after_drop"
                   /\ UNCHANGED <<dropIdx, dropPassed>>
              ELSE /\ dropIdx' = dropIdx + 1
                   /\ dropPassed' = IF o = "skip" /\ obs.h2
                                    THEN dropPassed \cup {obs.title} ELSE dropPassed
                   /\ UNCHANGED <<dropClicks, dropResult, pc>>
    /\ UNCHANGED <<config, launched, closeCalls, uncaught, trace, dropN,
                   prodVars, ckVars>>

\* lines 177-178: no card matched
DropExhausted ==
    /\ pc = "drop_loop"
    /\ dropIdx > dropN
    /\ dropResult' = DropCatch("False")
    /\ pc' = "after_drop"
    /\ UNCHANGED <<config, launched, closeCalls, uncaught, trace,
                   dropN, dropIdx, dropClicks, dropPassed, prodVars, ckVars>>

\* ---------------------------------------------------------------- find_and_click_product

\* the outer handlers of find_and_click_product
ProductCatch(outcome) == IF outcome = "raised" THEN "False" ELSE outcome

\* what the page shows for one product button
ProductObs ==
    [h3 : BOOLEAN, title : ProductTitles, soldOut : BOOLEAN,
     raiseAt : {"none", "title", "details", "click"}]

\* the body of the per-product `try`; price, status and is_sold_out are
\* read before the title is compared and are logged only
ProductOutcome(obs) ==
    IF obs.raiseAt = "title" THEN "error"
    ELSE IF ~obs.h3 THEN "skip"
    ELSE IF obs.raiseAt = "details" THEN "error"
    ELSE IF ~TitleMatches(ProductName, obs.title) THEN "skip"
    ELSE IF obs.raiseAt # "none" THEN "error"
    ELSE "click"

\* lines 199-216: load state, screenshot, wait_for_selector,
\* query_selector_all
ProductQuery ==
    /\ pc = "prod_query"
    /\ trace' = Append(trace, "product")
    /\ \E pre \in {"ok", "raise"}, n \in 0..MaxCards :
          IF pre = "raise"
          THEN /\ prodResult' = ProductCatch("raised")
               /\ pc' = "after_product"
               /\ UNCHANGED <<prodN, prodIdx>>
          ELSE /\ prodN' = n
               /\ prodIdx' = 1
               /\ pc' = "prod_loop"
               /\ UNCHANGED prodResult
    /\ UNCHANGED <<config, launched, closeCalls, uncaught, prodClicks, prodPassed,
                   dropVars, ckVars>>

\* lines 218-258: one iteration of `for idx, button in enumerate(product_buttons)`
ProductItem ==
    /\ pc = "prod_loop"
    /\ prodIdx <= prodN
    /\ \E obs \in ProductObs :
          LET o == ProductOutcome(obs)
          IN  IF o = "click"
              THEN /\ prodClicks' = Append(prodClicks,
                          [hasTitle |-> obs.h3, title |-> obs.title,
                           soldOut |-> obs.soldOut])
                   /\ prodResult' = ProductCatch("True")
                   /\ pc' = "after_product"
                   /\ UNCHANGED <<prodIdx, prodPassed>>
              ELSE /\ prodIdx' = prodIdx + 1
                   /\ prodPassed' = IF o = "skip" /\ obs.h3
                                    THEN prodPassed \cup {obs.title} ELSE prodPassed
                   /\ UNCHANGED <<prodClicks, prodResult, pc>>
    /\ UNCHANGED <<config, launched, closeCalls, uncaught, trace, prodN,
                   dropVars, ckVars>>

\* lines 260-261: no product matched
ProductExhausted ==
    /\ pc = "prod_loop"
    /\ prodIdx > prodN
    /\ prodResult' = ProductCatch("False")
    /\ pc' = "after_product"
    /\ UNCHANGED <<config, launched, closeCalls, uncaught, trace,
                   prodN, prodIdx, prodClicks, prodPassed, dropVars, ckVars>>

\* ---------------------------------------------------------------- find_and_click_checkout_button

\* Python's a // b for b # 0: the floor of the quotient, whatever the signs
FloorDiv(a, b) == IF b > 0 THEN a \div b ELSE (-a) \div (-b)

\* a maximum that always allows one attempt
MaxAttemptsAtLeastOne(timeout_seconds, retry_interval_ms) ==
    IF FloorDiv(timeout_seconds * 1000, retry_interval_ms) < 1 THEN 1
    ELSE FloorDiv(timeout_seconds * 1000, retry_interval_ms)

\* max_attempts = (timeout_seconds * 1000) // retry_interval_ms
MaxAttempts(timeout_seconds, retry_interval_ms) ==
    FloorDiv(timeout_seconds * 1000, retry_interval_ms)

\* the loop condition off by one
LoopGuardInclusive(a, m) == a <= m

\* while attempts < max_attempts
LoopGuard(a, m) == a < m

\* the click without the test of is_disabled
ShouldClickAlways(is_disabled) == TRUE

\* if not is_disabled: ... click
ShouldClick(is_disabled) == ~is_disabled

\* a handler that forgets to count the failed attempt
HandlerAttemptsStuck(a) == a

\* attempts += 1 in the handler of the polling loop
HandlerAttempts(a) == a + 1

\* an outer handler that lets the exception through
CheckoutRethrow(outcome) == outcome

\* the outer handler of find_and_click_checkout_button:
\* except Exception -> return False
CheckoutCatch(outcome) == IF outcome = "raised" THEN "False" ELSE outcome

\* what one checkout button shows when it is inspected: is_disabled()
\* returns True or False, or reading its texts or its state raises
ButtonObs == {"disabled", "enabled", "raise"}

\* for idx, button in enumerate(checkout_buttons): the buttons are
\* inspected in order up to the first one clicked or the first exception;
\* `at` is the last button inspected
RECURSIVE ScanButtons(_, _)
ScanButtons(btns, i) ==
    IF i > Len(btns) THEN [kind |-> "none", at |-> Len(btns)]
    ELSE IF btns[i] = "raise" THEN [kind |-> "raise", at |-> i]
    ELSE IF ShouldClick(btns[i] = "disabled") THEN [kind |-> "click", at |-> i]
    ELSE ScanButtons(btns, i + 1)

\* the body without `return True` after the click
PollBodyNoReturn(queryOk, btns, clickOk) ==
    IF ~queryOk THEN "raise"
    ELSE LET sc == ScanButtons(btns, 1)
         IN  IF sc.kind = "click" THEN (IF clickOk THEN "none" ELSE "raise")
             ELSE sc.kind

\* the `try` body of one iteration up to `attempts += 1`: "clicked" is a
\* completed click (return True), "raise" an exception of the query, of a
\* button inspection or of scroll/wait/click, "none" the fall-through
PollBody(queryOk, btns, clickOk) ==
    IF ~queryOk THEN "raise"
    ELSE LET sc == ScanButtons(btns, 1)
         IN  IF sc.kind = "click" THEN (IF clickOk THEN "clicked" ELSE "raise")
             ELSE sc.kind

\* the counter and the retry sleeps of one iteration.  After the body fell
\* through: attempts += 1, then a sleep if attempts < max_attempts; if
\* that sleep raises, the handler increments again and sleeps again.
\* After the body raised: the handler increments and sleeps.  `escaped`
\* is an exception raised by the handler's own sleep.
PollCount(a, m, body, sleepOk, handlerSleepOk) ==
    IF body = "clicked"
    THEN [attempts |-> a, sleeps |-> 0, escaped |-> FALSE, raised |-> FALSE]
    ELSE IF body = "none"
    THEN IF a + 1 < m
         THEN IF sleepOk
              THEN [attempts |-> a + 1, sleeps |-> 1, escaped |-> FALSE, raised |-> FALSE]
              ELSE [attempts |-> HandlerAttempts(a + 1), sleeps |-> 2,
                    escaped |-> ~handlerSleepOk, raised |-> TRUE]
         ELSE [attempts |-> a + 1, sleeps |-> 0, escaped |-> FALSE, raised |-> FALSE]
    ELSE [attempts |-> HandlerAttempts(a), sleeps |-> 1,
          escaped |-> ~handlerSleepOk, raised |-> TRUE]

\* lines 284-289: the maximum iteration count; a zero interval raises
\* ZeroDivisionError inside the outer `try`
CheckoutStart ==
    /\ pc = "ck_start"
    /\ trace' = Append(trace, "checkout")
    /\ IF config.retry_interval_ms = 0
       THEN /\ ckResult' = CheckoutCatch("raised")
            /\ pc' = "after_checkout"
            /\ UNCHANGED <<max_attempts, attempts>>
       ELSE /\ max_attempts' = MaxAttempts(config.timeout_seconds, config.retry_interval_ms)
            /\ attempts' = 0
            /\ pc' = "ck_loop"
            /\ UNCHANGED ckResult
    /\ UNCHANGED <<config, launched, closeCalls, uncaught, queries, ckClicks, sleeps,
                   sleepDurs, ckRaised, seenAt, dropVars, prodVars>>

\* lines 291-329: one iteration of the polling loop
CheckoutPoll ==
    /\ pc = "ck_loop"
    /\ LoopGuard(attempts, max_attempts)
    /\ \E queryOk \in BOOLEAN, btns \in SeqUpTo(ButtonObs, MaxButtons),
          clickOk \in BOOLEAN, sleepOk \in BOOLEAN, handlerSleepOk \in BOOLEAN :
          LET sc == ScanButtons(btns, 1)
              body == PollBody(queryOk, btns, clickOk)
              cnt == PollCount(attempts, max_attempts, body, sleepOk, handlerSleepOk)
              sawEnabled == queryOk /\ \E j \in 1..sc.at : btns[j] = "enabled"
          IN  /\ queries' = queries + 1
              /\ seenAt' = IF seenAt = 0 /\ sawEnabled THEN queries + 1 ELSE seenAt
              /\ ckClicks' = IF body = "clicked"
                             THEN Append(ckClicks, [poll |-> queries + 1,
                                                    observed |-> btns[sc.at]])
                             ELSE ckClicks
              /\ attempts' = cnt.attempts
              /\ sleeps' = sleeps + cnt.sleeps
              /\ sleepDurs' = IF cnt.sleeps > 0
                              THEN sleepDurs \cup {config.retry_interval_ms}
                              ELSE sleepDurs
              /\ ckRaised' = (ckRaised \/ body = "raise" \/ cnt.raised)
              /\ IF body = "clicked"
                 THEN ckResult' = CheckoutCatch("True") /\ pc' = "after_checkout"
                 ELSE IF cnt.escaped
                 THEN ckResult' = CheckoutCatch("raised") /\ pc' = "after_checkout"
                 ELSE UNCHANGED <<ckResult, pc>>
    /\ UNCHANGED <<config, launched, closeCalls, uncaught, trace, max_attempts,
                   dropVars, prodVars>>

\* lines 331-332: the loop ended without a click
CheckoutTimeout ==
    /\ pc = "ck_loop"
    /\ ~LoopGuard(attempts, max_attempts)
    /\ ckResult' = CheckoutCatch("False")
    /\ pc' = "after_checkout"
    /\ UNCHANGED <<config, launched, closeCalls, uncaught, trace, max_attempts, attempts,
                   queries, ckClicks, sleeps, sleepDurs, ckRaised, seenAt,
                   dropVars, prodVars>>

\* ---------------------------------------------------------------- run_bot: the steps

\* a branch that goes on to the next step whatever the step returned
StepBranchIgnore(result, onTrue) ==
    IF result = "raised" THEN "except" ELSE onTrue

\* a branch that starts over from the navigation when a step returned False
StepBranchRetry(result, onTrue) ==
    IF result = "True" THEN onTrue
    ELSE IF result = "False" THEN "goto"
    ELSE "except"

\* `if clicked_...:` in run_bot: True goes on to the next step, False to
\* the lines after the nested ifs; an exception out of the step function
\* would reach `except Exception`
StepBranch(result, onTrue) ==
    IF result = "True" THEN onTrue
    ELSE IF result = "False" THEN "inspect"
    ELSE "except"

\* lines 376-380 and 406-407.  The frame of the step function (its locals
\* and the record of what it did to the page) ends once run_bot holds
\* clicked_drop.
AfterDrop ==
    /\ pc = "after_drop"
    /\ pc' = StepBranch(dropResult, "wait_product_page")
    /\ dropN' = 0 /\ dropIdx' = 0 /\ dropClicks' = <<>> /\ dropPassed' = {}
    /\ UNCHANGED <<config, launched, closeCalls, uncaught, trace, dropResult,
                   prodVars, ckVars>>

\* line 381: page.wait_for_timeout(3000), which may raise
WaitProductPage ==
    /\ pc = "wait_product_page"
    /\ pc' = "prod_query" \/ pc' = "except"
    /\ UNCHANGED <<config, launched, closeCalls, uncaught, trace,
                   dropVars, prodVars, ckVars>>

\* lines 384-388 and 404-405
AfterProduct ==
    /\ pc = "after_product"
    /\ pc' = StepBranch(prodResult, "wait_product_details")
    /\ prodN' = 0 /\ prodIdx' = 0 /\ prodClicks' = <<>> /\ prodPassed' = {}
    /\ UNCHANGED <<config, launched, closeCalls, uncaught, trace, prodResult,
                   dropVars, ckVars>>

\* line 389: page.wait_for_timeout(2000), which may raise
WaitProductDetails ==
    /\ pc = "wait_product_details"
    /\ pc' = "ck_start" \/ pc' = "except"
    /\ UNCHANGED <<config, launched, closeCalls, uncaught, trace,
                   dropVars, prodVars, ckVars>>

\* lines 392-400 and 402-403
AfterCheckout ==
    /\ pc = "after_checkout"
    /\ pc' = StepBranch(ckResult, "wait_checkout_result")
    /\ max_attempts' = 0 /\ attempts' = 0 /\ queries' = 0 /\ ckClicks' = <<>>
    /\ sleeps' = 0 /\ sleepDurs' = {} /\ ckRaised' = FALSE /\ seenAt' = 0
    /\ UNCHANGED <<config, launched, closeCalls, uncaught, trace, ckResult,
                   dropVars, prodVars>>

\* line 401: page.wait_for_timeout(3000), which may raise
WaitCheckoutResult ==
    /\ pc = "wait_checkout_result"
    /\ pc' = "inspect" \/ pc' = "except"
    /\ UNCHANGED <<config, launched, closeCalls, uncaught, trace,
                   dropVars, prodVars, ckVars>>

\* lines 409-412: the inspection wait of a headed run
Inspect ==
    /\ pc = "inspect"
    /\ IF config.headless
       THEN pc' = "finally"
       ELSE pc' = "finally" \/ pc' = "except"
    /\ UNCHANGED <<config, launched, closeCalls, uncaught, trace,
                   dropVars, prodVars, ckVars>>

\* lines 414-415: except Exception logs the error
Except ==
    /\ pc = "except"
    /\ pc' = "finally"
    /\ UNCHANGED <<config, launched, closeCalls, uncaught, trace,
                   dropVars, prodVars, ckVars>>

\* lines 417-419: finally: browser.close()
Close ==
    /\ pc = "finally"
    /\ closeCalls' = closeCalls + 1
    /\ pc' = "done"
    /\ UNCHANGED <<config, launched, uncaught, trace, dropVars, prodVars, ckVars>>

Next ==
    \/ LoadConfig \/ Launch \/ NewContext \/ AddInitScript \/ NewPage \/ Navigate
    \/ DropQuery \/ DropCard \/ DropExhausted \/ AfterDrop \/ WaitProductPage
    \/ ProductQuery \/ ProductItem \/ ProductExhausted \/ AfterProduct
    \/ WaitProductDetails
    \/ CheckoutStart \/ CheckoutPoll \/ CheckoutTimeout \/ AfterCheckout
    \/ WaitCheckoutResult
    \/ Inspect \/ Except \/ Close

Spec == Init /\ [][Next]_vars

\* ---------------------------------------------------------------- properties

TimeoutMs == config.timeout_seconds * 1000
IntervalMs == config.retry_interval_ms
InCheckout == pc \in {"ck_loop", "after_checkout"}
Count(step) == Cardinality({i \in 1..Len(trace) : trace[i] = step})
IsPrefix(p, q) == Len(p) <= Len(q) /\ SubSeq(q, 1, Len(p)) = p

\* the steps of run_bot in the order of the script
StepOrder == <<"load_config", "navigate", "drop_card", "product", "checkout">>

\* the titles of the model that contain the search text, whatever the case
DropMatching == {TitleSearch, DropTitleUpper, DropTitleInside}
ProductMatching == {ProductName, ProductTitleUpper, ProductTitleInside}

\* C1: with retry_interval_ms > 0 and timeout_seconds >= 0, one call of
\* find_and_click_checkout_button never has its attempt counter or its
\* number of button queries above floor(timeout_seconds*1000 /
\* retry_interval_ms), and once the counter has reached that maximum the
\* loop body is not entered again (k <= floor(T/r) iff k*r <= T).
C1_PollsBounded ==
    /\ [](IntervalMs > 0 /\ InCheckout =>
            /\ attempts * IntervalMs <= TimeoutMs
            /\ queries * IntervalMs <= TimeoutMs)
    /\ [][(pc = "ck_loop" /\ IntervalMs > 0 /\ (attempts + 1) * IntervalMs > TimeoutMs)
            => queries' = queries]_vars

\* the counter reached the maximum through a double increment
C1_Witness ==
    /\ pc = "after_checkout" /\ IntervalMs > 0 /\ ckResult = "False"
    /\ max_attempts >= 2 /\ attempts = max_attempts /\ queries < attempts

C3_FirstEnabledClicked ==
    (InCheckout /\ ~ckRaised) =>
        /\ seenAt > 0 =>
              /\ ckResult = "True" /\ pc = "after_checkout"
              /\ queries = seenAt
              /\ Len(ckClicks) = 1 /\ ckClicks[1].poll = seenAt
        /\ (pc = "after_checkout" /\ ckResult = "False") =>
              /\ seenAt = 0
              /\ IntervalMs > 0 =>
                    /\ queries * IntervalMs <= TimeoutMs
                    /\ (queries + 1) * IntervalMs > TimeoutMs

\* an enabled button first seen in the second poll or later, no exception
C3_Witness ==
    /\ pc = "after_checkout" /\ ~ckRaised /\ seenAt >= 2 /\ ckResult = "True"

\* C4: whenever the browser was launched, browser.close() has been called
\* exactly once when run_bot finishes.
C4_CloseExactlyOnce ==
    (pc = "done" /\ launched) => closeCalls = 1

\* C5: no exception leaves find_and_click_drop_card, find_and_click_product
\* or find_and_click_checkout_button: each returns True or False, also
\* when the sleep inside the polling loop's handler raises.
C5_NoExceptionEscapes ==
    /\ dropResult \in {"none", "True", "False"}
    /\ prodResult \in {"none", "True", "False"}
    /\ ckResult \in {"none", "True", "False"}
    /\ pc = "after_drop" => dropResult \in {"True", "False"}
    /\ pc = "after_product" => prodResult \in {"True", "False"}
    /\ pc = "after_checkout" => ckResult \in {"True", "False"}

\* the handler's own sleep raised before the maximum was reached
C5_Witness ==
    /\ pc = "after_checkout" /\ ckResult = "False" /\ ckRaised
    /\ IntervalMs > 0 /\ attempts < max_attempts

\* C6: run_bot invokes load config, navigate, drop card, product and
\* checkout in that order, each at most once, the product step only after
\* the drop-card step returned True and the checkout step only after the
\* product step returned True.
C6_StepOrder ==
    /\ IsPrefix(trace, StepOrder)
    /\ Count("product") > 0 => dropResult = "True"
    /\ Count("checkout") > 0 => prodResult = "True"

\* a run that went through all five steps
C6_Witness ==
    /\ pc = "done" /\ trace = StepOrder /\ ckResult = "True" /\ closeCalls = 1

\* C7 as stated: a step that returned False has been attempted again by
\* the time run_bot finishes.
C7_RetryAfterFalse ==
    pc = "done" =>
        /\ dropResult = "False" => Count("drop_card") >= 2
        /\ prodResult = "False" => Count("product") >= 2
        /\ ckResult = "False" => Count("checkout") >= 2

\* C7 amended: a step that returned False is not attempted again and no
\* later step is attempted; run_bot goes from the False result straight to
\* the inspection wait and the cleanup.
C7_NoRetryAfterFalse ==
    /\ [](/\ dropResult = "False" =>
               Count("drop_card") = 1 /\ Count("product") = 0 /\ Count("checkout") = 0
          /\ prodResult = "False" => Count("product") = 1 /\ Count("checkout") = 0
          /\ ckResult = "False" => Count("checkout") = 1)
    /\ [][/\ (pc = "after_drop" /\ dropResult = "False") => pc' = "inspect"
          /\ (pc = "after_product" /\ prodResult = "False") => pc' = "inspect"
          /\ (pc = "after_checkout" /\ ckResult = "False") => pc' = "inspect"]_vars

\* a run that ended after the product step returned False
C7_Witness ==
    /\ pc = "done" /\ prodResult = "False" /\ closeCalls = 1
    /\ trace = <<"load_config", "navigate", "drop_card", "product">>

\* C8: find_and_click_drop_card and find_and_click_product complete at
\* most one click, only for an element that has a title containing the
\* search text case-insensitively, return True exactly when a click
\* completed, and pass over no element with a matching title without an
\* exception, sold out or not.
C8_ClickOnlyMatching ==
    /\ Len(dropClicks) <= 1 /\ Len(prodClicks) <= 1
    /\ \A i \in 1..Len(dropClicks) :
          dropClicks[i].hasTitle /\ dropClicks[i].title \in DropMatching
    /\ \A i \in 1..Len(prodClicks) :
          prodClicks[i].hasTitle /\ prodClicks[i].title \in ProductMatching
    /\ dropPassed \cap DropMatching = {}
    /\ prodPassed \cap ProductMatching = {}
    /\ pc \in {"drop_query", "drop_loop"} => dropClicks = <<>>
    /\ pc \in {"prod_query", "prod_loop"} => prodClicks = <<>>
    /\ pc = "after_drop" => (dropResult = "True" <=> Len(dropClicks) = 1)
    /\ pc = "after_product" => (prodResult = "True" <=> Len(prodClicks) = 1)

\* a sold-out card with an upper-case title clicked after another card
\* was passed over
C8_Witness ==
    /\ pc = "after_drop" /\ dropResult = "True" /\ Len(dropClicks) = 1
    /\ dropClicks[1].soldOut /\ dropClicks[1].title = DropTitleUpper
    /\ dropPassed # {}

\* C9: with retry_interval_ms > 0 and timeout_seconds >= 0, every retry
\* sleep of find_and_click_checkout_button is issued for retry_interval_ms,
\* the sleeps are no more than the attempts counted, and their sum is at
\* most timeout_seconds*1000 ms.
C9_SleepBudget ==
    (IntervalMs > 0 /\ InCheckout) =>
        /\ sleepDurs \subseteq {IntervalMs}
        /\ sleeps <= attempts
        /\ sleeps * IntervalMs <= TimeoutMs

\* the whole budget slept, with a sleep issued by the exception handler
C9_Witness ==
    /\ pc = "after_checkout" /\ IntervalMs > 0 /\ ckRaised
    /\ sleeps >= 2 /\ sleeps * IntervalMs = TimeoutMs /\ queries < attempts

\* C10: with timeout_seconds >= 0 and retry_interval_ms zero, negative or
\* above timeout_seconds*1000, find_and_click_checkout_button returns
\* False without a single query of the checkout buttons and without a
\* click.
C10_NoPollOnBadInterval ==
    (IntervalMs <= 0 \/ IntervalMs > TimeoutMs) =>
        /\ queries = 0
        /\ ckClicks = <<>>
        /\ ckResult \in {"none", "False"}
        /\ pc = "after_checkout" => ckResult = "False"

\* the call returned with a zero interval
C10_Witness ==
    /\ pc = "after_checkout" /\ IntervalMs = 0 /\ ckResult = "False"
    /\ Count("checkout") = 1

====
